---- MODULE Spec2Model ----
(***************************************************************************)
(* Model of the release sanity checker (src/main.py).                      *)
(*                                                                         *)
(* Texts are sequences of Unicode code points.  JSON values are records    *)
(* of one shape, [t, n, s, kids]; kids is a sequence of [k, v] members     *)
(* (k is the member name of an object member and empty in an array).       *)
(***************************************************************************)
EXTENDS Integers, Sequences, FiniteSets, TLC

\* ------------------------------------------------------------------------
\* Bounds
\* ------------------------------------------------------------------------

\* longest catalog (number of microservice entries of the urls section)
MaxServices == 2

\* ------------------------------------------------------------------------
\* Text helpers (Python str methods used by main)
\* ------------------------------------------------------------------------

Min(a, b) == IF a <= b THEN a ELSE b

\* A character is its Unicode code point; a text is a sequence of them.

InRanges(c, ranges) ==
  \E r \in 1..Len(ranges) : ranges[r][1] <= c /\ c <= ranges[r][2]

\* the code points str.lower() maps to one other code point:
\* <<first, last, step, offset>> maps first, first + step, ..., last to
\* themselves plus offset (Unicode 14.0.0 case mappings)
LowerRuns ==
  << <<65, 90, 1, 32>>, <<192, 214, 1, 32>>, <<216, 222, 1, 32>>, <<256, 302, 2, 1>>,
     <<306, 310, 2, 1>>, <<313, 327, 2, 1>>, <<330, 374, 2, 1>>, <<376, 376, 1, -121>>,
     <<377, 381, 2, 1>>, <<385, 385, 1, 210>>, <<386, 388, 2, 1>>, <<390, 390, 1, 206>>,
     <<391, 391, 1, 1>>, <<393, 394, 1, 205>>, <<395, 395, 1, 1>>, <<398, 398, 1, 79>>,
     <<399, 399, 1, 202>>, <<400, 400, 1, 203>>, <<401, 401, 1, 1>>, <<403, 403, 1, 205>>,
     <<404, 404, 1, 207>>, <<406, 406, 1, 211>>, <<407, 407, 1, 209>>, <<408, 408, 1, 1>>,
     <<412, 412, 1, 211>>, <<413, 413, 1, 213>>, <<415, 415, 1, 214>>, <<416, 420, 2, 1>>,
     <<422, 422, 1, 218>>, <<423, 423, 1, 1>>, <<425, 425, 1, 218>>, <<428, 428, 1, 1>>,
     <<430, 430, 1, 218>>, <<431, 431, 1, 1>>, <<433, 434, 1, 217>>, <<435, 437, 2, 1>>,
     <<439, 439, 1, 219>>, <<440, 440, 1, 1>>, <<444, 444, 1, 1>>, <<452, 452, 1, 2>>,
     <<453, 453, 1, 1>>, <<455, 455, 1, 2>>, <<456, 456, 1, 1>>, <<458, 458, 1, 2>>,
     <<459, 475, 2, 1>>, <<478, 494, 2, 1>>, <<497, 497, 1, 2>>, <<498, 500, 2, 1>>,
     <<502, 502, 1, -97>>, <<503, 503, 1, -56>>, <<504, 542, 2, 1>>, <<544, 544, 1, -130>>,
     <<546, 562, 2, 1>>, <<570, 570, 1, 10795>>, <<571, 571, 1, 1>>, <<573, 573, 1, -163>>,
     <<574, 574, 1, 10792>>, <<577, 577, 1, 1>>, <<579, 579, 1, -195>>, <<580, 580, 1, 69>>,
     <<581, 581, 1, 71>>, <<582, 590, 2, 1>>, <<880, 882, 2, 1>>, <<886, 886, 1, 1>>,
     <<895, 895, 1, 116>>, <<902, 902, 1, 38>>, <<904, 906, 1, 37>>, <<908, 908, 1, 64>>,
     <<910, 911, 1, 63>>, <<913, 929, 1, 32>>, <<932, 939, 1, 32>>, <<975, 975, 1, 8>>,
     <<984, 1006, 2, 1>>, <<1012, 1012, 1, -60>>, <<1015, 1015, 1, 1>>, <<1017, 1017, 1, -7>>,
     <<1018, 1018, 1, 1>>, <<1021, 1023, 1, -130>>, <<1024, 1039, 1, 80>>, <<1040, 1071, 1, 32>>,
     <<1120, 1152, 2, 1>>, <<1162, 1214, 2, 1>>, <<1216, 1216, 1, 15>>, <<1217, 1229, 2, 1>>,
     <<1232, 1326, 2, 1>>, <<1329, 1366, 1, 48>>, <<4256, 4293, 1, 7264>>, <<4295, 4295, 1, 7264>>,
     <<4301, 4301, 1, 7264>>, <<5024, 5103, 1, 38864>>, <<5104, 5109, 1, 8>>, <<7312, 7354, 1, -3008>>,
     <<7357, 7359, 1, -3008>>, <<7680, 7828, 2, 1>>, <<7838, 7838, 1, -7615>>, <<7840, 7934, 2, 1>>,
     <<7944, 7951, 1, -8>>, <<7960, 7965, 1, -8>>, <<7976, 7983, 1, -8>>, <<7992, 7999, 1, -8>>,
     <<8008, 8013, 1, -8>>, <<8025, 8031, 2, -8>>, <<8040, 8047, 1, -8>>, <<8072, 8079, 1, -8>>,
     <<8088, 8095, 1, -8>>, <<8104, 8111, 1, -8>>, <<8120, 8121, 1, -8>>, <<8122, 8123, 1, -74>>,
     <<8124, 8124, 1, -9>>, <<8136, 8139, 1, -86>>, <<8140, 8140, 1, -9>>, <<8152, 8153, 1, -8>>,
     <<8154, 8155, 1, -100>>, <<8168, 8169, 1, -8>>, <<8170, 8171, 1, -112>>, <<8172, 8172, 1, -7>>,
     <<8184, 8185, 1, -128>>, <<8186, 8187, 1, -126>>, <<8188, 8188, 1, -9>>, <<8486, 8486, 1, -7517>>,
     <<8490, 8490, 1, -8383>>, <<8491, 8491, 1, -8262>>, <<8498, 8498, 1, 28>>, <<8544, 8559, 1, 16>>,
     <<8579, 8579, 1, 1>>, <<9398, 9423, 1, 26>>, <<11264, 11311, 1, 48>>, <<11360, 11360, 1, 1>>,
     <<11362, 11362, 1, -10743>>, <<11363, 11363, 1, -3814>>, <<11364, 11364, 1, -10727>>, <<11367, 11371, 2, 1>>,
     <<11373, 11373, 1, -10780>>, <<11374, 11374, 1, -10749>>, <<11375, 11375, 1, -10783>>, <<11376, 11376, 1, -10782>>,
     <<11378, 11378, 1, 1>>, <<11381, 11381, 1, 1>>, <<11390, 11391, 1, -10815>>, <<11392, 11490, 2, 1>>,
     <<11499, 11501, 2, 1>>, <<11506, 11506, 1, 1>>, <<42560, 42604, 2, 1>>, <<42624, 42650, 2, 1>>,
     <<42786, 42798, 2, 1>>, <<42802, 42862, 2, 1>>, <<42873, 42875, 2, 1>>, <<42877, 42877, 1, -35332>>,
     <<42878, 42886, 2, 1>>, <<42891, 42891, 1, 1>>, <<42893, 42893, 1, -42280>>, <<42896, 42898, 2, 1>>,
     <<42902, 42920, 2, 1>>, <<42922, 42922, 1, -42308>>, <<42923, 42923, 1, -42319>>, <<42924, 42924, 1, -42315>>,
     <<42925, 42925, 1, -42305>>, <<42926, 42926, 1, -42308>>, <<42928, 42928, 1, -42258>>, <<42929, 42929, 1, -42282>>,
     <<42930, 42930, 1, -42261>>, <<42931, 42931, 1, 928>>, <<42932, 42946, 2, 1>>, <<42948, 42948, 1, -48>>,
     <<42949, 42949, 1, -42307>>, <<42950, 42950, 1, -35384>>, <<42951, 42953, 2, 1>>, <<42960, 42960, 1, 1>>,
     <<42966, 42968, 2, 1>>, <<42997, 42997, 1, 1>>, <<65313, 65338, 1, 32>>, <<66560, 66599, 1, 40>>,
     <<66736, 66771, 1, 40>>, <<66928, 66938, 1, 39>>, <<66940, 66954, 1, 39>>, <<66956, 66962, 1, 39>>,
     <<66964, 66965, 1, 39>>, <<68736, 68786, 1, 64>>, <<71840, 71871, 1, 32>>, <<93760, 93791, 1, 32>>,
     <<125184, 125217, 1, 34>> >>

\* the Case_Ignorable code points (skipped around a capital sigma)
CaseIgnorableRanges ==
  << <<39, 39>>, <<46, 46>>, <<58, 58>>, <<94, 94>>, <<96, 96>>,
     <<168, 168>>, <<173, 173>>, <<175, 175>>, <<180, 180>>, <<183, 184>>,
     <<688, 879>>, <<884, 885>>, <<890, 890>>, <<900, 901>>, <<903, 903>>,
     <<1155, 1161>>, <<1369, 1369>>, <<1375, 1375>>, <<1425, 1469>>, <<1471, 1471>>,
     <<1473, 1474>>, <<1476, 1477>>, <<1479, 1479>>, <<1524, 1524>>, <<1536, 1541>>,
     <<1552, 1562>>, <<1564, 1564>>, <<1600, 1600>>, <<1611, 1631>>, <<1648, 1648>>,
     <<1750, 1757>>, <<1759, 1768>>, <<1770, 1773>>, <<1807, 1807>>, <<1809, 1809>>,
     <<1840, 1866>>, <<1958, 1968>>, <<2027, 2037>>, <<2042, 2042>>, <<2045, 2045>>,
     <<2070, 2093>>, <<2137, 2139>>, <<2184, 2184>>, <<2192, 2193>>, <<2200, 2207>>,
     <<2249, 2306>>, <<2362, 2362>>, <<2364, 2364>>, <<2369, 2376>>, <<2381, 2381>>,
     <<2385, 2391>>, <<2402, 2403>>, <<2417, 2417>>, <<2433, 2433>>, <<2492, 2492>>,
     <<2497, 2500>>, <<2509, 2509>>, <<2530, 2531>>, <<2558, 2558>>, <<2561, 2562>>,
     <<2620, 2620>>, <<2625, 2626>>, <<2631, 2632>>, <<2635, 2637>>, <<2641, 2641>>,
     <<2672, 2673>>, <<2677, 2677>>, <<2689, 2690>>, <<2748, 2748>>, <<2753, 2757>>,
     <<2759, 2760>>, <<2765, 2765>>, <<2786, 2787>>, <<2810, 2815>>, <<2817, 2817>>,
     <<2876, 2876>>, <<2879, 2879>>, <<2881, 2884>>, <<2893, 2893>>, <<2901, 2902>>,
     <<2914, 2915>>, <<2946, 2946>>, <<3008, 3008>>, <<3021, 3021>>, <<3072, 3072>>,
     <<3076, 3076>>, <<3132, 3132>>, <<3134, 3136>>, <<3142, 3144>>, <<3146, 3149>>,
     <<3157, 3158>>, <<3170, 3171>>, <<3201, 3201>>, <<3260, 3260>>, <<3263, 3263>>,
     <<3270, 3270>>, <<3276, 3277>>, <<3298, 3299>>, <<3328, 3329>>, <<3387, 3388>>,
     <<3393, 3396>>, <<3405, 3405>>, <<3426, 3427>>, <<3457, 3457>>, <<3530, 3530>>,
     <<3538, 3540>>, <<3542, 3542>>, <<3633, 3633>>, <<3636, 3642>>, <<3654, 3662>>,
     <<3761, 3761>>, <<3764, 3772>>, <<3782, 3782>>, <<3784, 3789>>, <<3864, 3865>>,
     <<3893, 3893>>, <<3895, 3895>>, <<3897, 3897>>, <<3953, 3966>>, <<3968, 3972>>,
     <<3974, 3975>>, <<3981, 3991>>, <<3993, 4028>>, <<4038, 4038>>, <<4141, 4144>>,
     <<4146, 4151>>, <<4153, 4154>>, <<4157, 4158>>, <<4184, 4185>>, <<4190, 4192>>,
     <<4209, 4212>>, <<4226, 4226>>, <<4229, 4230>>, <<4237, 4237>>, <<4253, 4253>>,
     <<4348, 4348>>, <<4957, 4959>>, <<5906, 5908>>, <<5938, 5939>>, <<5970, 5971>>,
     <<6002, 6003>>, <<6068, 6069>>, <<6071, 6077>>, <<6086, 6086>>, <<6089, 6099>>,
     <<6103, 6103>>, <<6109, 6109>>, <<6155, 6159>>, <<6211, 6211>>, <<6277, 6278>>,
     <<6313, 6313>>, <<6432, 6434>>, <<6439, 6440>>, <<6450, 6450>>, <<6457, 6459>>,
     <<6679, 6680>>, <<6683, 6683>>, <<6742, 6742>>, <<6744, 6750>>, <<6752, 6752>>,
     <<6754, 6754>>, <<6757, 6764>>, <<6771, 6780>>, <<6783, 6783>>, <<6823, 6823>>,
     <<6832, 6862>>, <<6912, 6915>>, <<6964, 6964>>, <<6966, 6970>>, <<6972, 6972>>,
     <<6978, 6978>>, <<7019, 7027>>, <<7040, 7041>>, <<7074, 7077>>, <<7080, 7081>>,
     <<7083, 7085>>, <<7142, 7142>>, <<7144, 7145>>, <<7149, 7149>>, <<7151, 7153>>,
     <<7212, 7219>>, <<7222, 7223>>, <<7288, 7293>>, <<7376, 7378>>, <<7380, 7392>>,
     <<7394, 7400>>, <<7405, 7405>>, <<7412, 7412>>, <<7416, 7417>>, <<7468, 7530>>,
     <<7544, 7544>>, <<7579, 7679>>, <<8125, 8125>>, <<8127, 8129>>, <<8141, 8143>>,
     <<8157, 8159>>, <<8173, 8175>>, <<8189, 8190>>, <<8203, 8207>>, <<8216, 8217>>,
     <<8228, 8228>>, <<8231, 8231>>, <<8234, 8238>>, <<8288, 8292>>, <<8294, 8303>>,
     <<8305, 8305>>, <<8319, 8319>>, <<8336, 8348>>, <<8400, 8432>>, <<11388, 11389>>,
     <<11503, 11505>>, <<11631, 11631>>, <<11647, 11647>>, <<11744, 11775>>, <<11823, 11823>>,
     <<12293, 12293>>, <<12330, 12333>>, <<12337, 12341>>, <<12347, 12347>>, <<12441, 12446>>,
     <<12540, 12542>>, <<40981, 40981>>, <<42232, 42237>>, <<42508, 42508>>, <<42607, 42610>>,
     <<42612, 42621>>, <<42623, 42623>>, <<42652, 42655>>, <<42736, 42737>>, <<42752, 42785>>,
     <<42864, 42864>>, <<42888, 42890>>, <<42994, 42996>>, <<43000, 43001>>, <<43010, 43010>>,
     <<43014, 43014>>, <<43019, 43019>>, <<43045, 43046>>, <<43052, 43052>>, <<43204, 43205>>,
     <<43232, 43249>>, <<43263, 43263>>, <<43302, 43309>>, <<43335, 43345>>, <<43392, 43394>>,
     <<43443, 43443>>, <<43446, 43449>>, <<43452, 43453>>, <<43471, 43471>>, <<43493, 43494>>,
     <<43561, 43566>>, <<43569, 43570>>, <<43573, 43574>>, <<43587, 43587>>, <<43596, 43596>>,
     <<43632, 43632>>, <<43644, 43644>>, <<43696, 43696>>, <<43698, 43700>>, <<43703, 43704>>,
     <<43710, 43711>>, <<43713, 43713>>, <<43741, 43741>>, <<43756, 43757>>, <<43763, 43764>>,
     <<43766, 43766>>, <<43867, 43871>>, <<43881, 43883>>, <<44005, 44005>>, <<44008, 44008>>,
     <<44013, 44013>>, <<64286, 64286>>, <<64434, 64450>>, <<65024, 65039>>, <<65043, 65043>>,
     <<65056, 65071>>, <<65106, 65106>>, <<65109, 65109>>, <<65279, 65279>>, <<65287, 65287>>,
     <<65294, 65294>>, <<65306, 65306>>, <<65342, 65342>>, <<65344, 65344>>, <<65392, 65392>>,
     <<65438, 65439>>, <<65507, 65507>>, <<65529, 65531>>, <<66045, 66045>>, <<66272, 66272>>,
     <<66422, 66426>>, <<67456, 67461>>, <<67463, 67504>>, <<67506, 67514>>, <<68097, 68099>>,
     <<68101, 68102>>, <<68108, 68111>>, <<68152, 68154>>, <<68159, 68159>>, <<68325, 68326>>,
     <<68900, 68903>>, <<69291, 69292>>, <<69446, 69456>>, <<69506, 69509>>, <<69633, 69633>>,
     <<69688, 69702>>, <<69744, 69744>>, <<69747, 69748>>, <<69759, 69761>>, <<69811, 69814>>,
     <<69817, 69818>>, <<69821, 69821>>, <<69826, 69826>>, <<69837, 69837>>, <<69888, 69890>>,
     <<69927, 69931>>, <<69933, 69940>>, <<70003, 70003>>, <<70016, 70017>>, <<70070, 70078>>,
     <<70089, 70092>>, <<70095, 70095>>, <<70191, 70193>>, <<70196, 70196>>, <<70198, 70199>>,
     <<70206, 70206>>, <<70367, 70367>>, <<70371, 70378>>, <<70400, 70401>>, <<70459, 70460>>,
     <<70464, 70464>>, <<70502, 70508>>, <<70512, 70516>>, <<70712, 70719>>, <<70722, 70724>>,
     <<70726, 70726>>, <<70750, 70750>>, <<70835, 70840>>, <<70842, 70842>>, <<70847, 70848>>,
     <<70850, 70851>>, <<71090, 71093>>, <<71100, 71101>>, <<71103, 71104>>, <<71132, 71133>>,
     <<71219, 71226>>, <<71229, 71229>>, <<71231, 71232>>, <<71339, 71339>>, <<71341, 71341>>,
     <<71344, 71349>>, <<71351, 71351>>, <<71453, 71455>>, <<71458, 71461>>, <<71463, 71467>>,
     <<71727, 71735>>, <<71737, 71738>>, <<71995, 71996>>, <<71998, 71998>>, <<72003, 72003>>,
     <<72148, 72151>>, <<72154, 72155>>, <<72160, 72160>>, <<72193, 72202>>, <<72243, 72248>>,
     <<72251, 72254>>, <<72263, 72263>>, <<72273, 72278>>, <<72281, 72283>>, <<72330, 72342>>,
     <<72344, 72345>>, <<72752, 72758>>, <<72760, 72765>>, <<72767, 72767>>, <<72850, 72871>>,
     <<72874, 72880>>, <<72882, 72883>>, <<72885, 72886>>, <<73009, 73014>>, <<73018, 73018>>,
     <<73020, 73021>>, <<73023, 73029>>, <<73031, 73031>>, <<73104, 73105>>, <<73109, 73109>>,
     <<73111, 73111>>, <<73459, 73460>>, <<78896, 78904>>, <<92912, 92916>>, <<92976, 92982>>,
     <<92992, 92995>>, <<94031, 94031>>, <<94095, 94111>>, <<94176, 94177>>, <<94179, 94180>>,
     <<110576, 110579>>, <<110581, 110587>>, <<110589, 110590>>, <<113821, 113822>>, <<113824, 113827>>,
     <<118528, 118573>>, <<118576, 118598>>, <<119143, 119145>>, <<119155, 119170>>, <<119173, 119179>>,
     <<119210, 119213>>, <<119362, 119364>>, <<121344, 121398>>, <<121403, 121452>>, <<121461, 121461>>,
     <<121476, 121476>>, <<121499, 121503>>, <<121505, 121519>>, <<122880, 122886>>, <<122888, 122904>>,
     <<122907, 122913>>, <<122915, 122916>>, <<122918, 122922>>, <<123184, 123197>>, <<123566, 123566>>,
     <<123628, 123631>>, <<125136, 125142>>, <<125252, 125259>>, <<127995, 127999>>, <<917505, 917505>>,
     <<917536, 917631>>, <<917760, 917999>> >>

\* the Cased code points that are not Case_Ignorable
CasedRanges ==
  << <<65, 90>>, <<97, 122>>, <<170, 170>>, <<181, 181>>, <<186, 186>>,
     <<192, 214>>, <<216, 246>>, <<248, 442>>, <<444, 447>>, <<452, 659>>,
     <<661, 687>>, <<880, 883>>, <<886, 887>>, <<891, 893>>, <<895, 895>>,
     <<902, 902>>, <<904, 906>>, <<908, 908>>, <<910, 929>>, <<931, 1013>>,
     <<1015, 1153>>, <<1162, 1327>>, <<1329, 1366>>, <<1376, 1416>>, <<4256, 4293>>,
     <<4295, 4295>>, <<4301, 4301>>, <<4304, 4346>>, <<4349, 4351>>, <<5024, 5109>>,
     <<5112, 5117>>, <<7296, 7304>>, <<7312, 7354>>, <<7357, 7359>>, <<7424, 7467>>,
     <<7531, 7543>>, <<7545, 7578>>, <<7680, 7957>>, <<7960, 7965>>, <<7968, 8005>>,
     <<8008, 8013>>, <<8016, 8023>>, <<8025, 8025>>, <<8027, 8027>>, <<8029, 8029>>,
     <<8031, 8061>>, <<8064, 8116>>, <<8118, 8124>>, <<8126, 8126>>, <<8130, 8132>>,
     <<8134, 8140>>, <<8144, 8147>>, <<8150, 8155>>, <<8160, 8172>>, <<8178, 8180>>,
     <<8182, 8188>>, <<8450, 8450>>, <<8455, 8455>>, <<8458, 8467>>, <<8469, 8469>>,
     <<8473, 8477>>, <<8484, 8484>>, <<8486, 8486>>, <<8488, 8488>>, <<8490, 8493>>,
     <<8495, 8500>>, <<8505, 8505>>, <<8508, 8511>>, <<8517, 8521>>, <<8526, 8526>>,
     <<8544, 8575>>, <<8579, 8580>>, <<9398, 9449>>, <<11264, 11387>>, <<11390, 11492>>,
     <<11499, 11502>>, <<11506, 11507>>, <<11520, 11557>>, <<11559, 11559>>, <<11565, 11565>>,
     <<42560, 42605>>, <<42624, 42651>>, <<42786, 42863>>, <<42865, 42887>>, <<42891, 42894>>,
     <<42896, 42954>>, <<42960, 42961>>, <<42963, 42963>>, <<42965, 42969>>, <<42997, 42998>>,
     <<43002, 43002>>, <<43824, 43866>>, <<43872, 43880>>, <<43888, 43967>>, <<64256, 64262>>,
     <<64275, 64279>>, <<65313, 65338>>, <<65345, 65370>>, <<66560, 66639>>, <<66736, 66771>>,
     <<66776, 66811>>, <<66928, 66938>>, <<66940, 66954>>, <<66956, 66962>>, <<66964, 66965>>,
     <<66967, 66977>>, <<66979, 66993>>, <<66995, 67001>>, <<67003, 67004>>, <<68736, 68786>>,
     <<68800, 68850>>, <<71840, 71903>>, <<93760, 93823>>, <<119808, 119892>>, <<119894, 119964>>,
     <<119966, 119967>>, <<119970, 119970>>, <<119973, 119974>>, <<119977, 119980>>, <<119982, 119993>>,
     <<119995, 119995>>, <<119997, 120003>>, <<120005, 120069>>, <<120071, 120074>>, <<120077, 120084>>,
     <<120086, 120092>>, <<120094, 120121>>, <<120123, 120126>>, <<120128, 120132>>, <<120134, 120134>>,
     <<120138, 120144>>, <<120146, 120485>>, <<120488, 120512>>, <<120514, 120538>>, <<120540, 120570>>,
     <<120572, 120596>>, <<120598, 120628>>, <<120630, 120654>>, <<120656, 120686>>, <<120688, 120712>>,
     <<120714, 120744>>, <<120746, 120770>>, <<120772, 120779>>, <<122624, 122633>>, <<122635, 122654>>,
     <<125184, 125251>>, <<127280, 127305>>, <<127312, 127337>>, <<127344, 127369>> >>

IsCaseIgnorable(c) == InRanges(c, CaseIgnorableRanges)
IsCased(c) == InRanges(c, CasedRanges)

\* the full lower-case mapping of one code point, context aside
ToLowerFull(c) ==
  IF c = 304 THEN <<105, 775>>
  ELSE IF \E r \in 1..Len(LowerRuns) :
            /\ LowerRuns[r][1] <= c /\ c <= LowerRuns[r][2]
            /\ (c - LowerRuns[r][1]) % LowerRuns[r][3] = 0
  THEN LET r == CHOOSE q \in 1..Len(LowerRuns) :
                  /\ LowerRuns[q][1] <= c /\ c <= LowerRuns[q][2]
                  /\ (c - LowerRuns[q][1]) % LowerRuns[q][3] = 0
       IN  <<c + LowerRuns[r][4]>>
  ELSE <<c>>

\* a capital sigma at i ends a word: the nearest code point before it that
\* is not case-ignorable is cased, the nearest such after it is not
FinalSigma(s, i) ==
  LET before == {j \in 1..(i - 1) : ~IsCaseIgnorable(s[j])}
      after == {j \in (i + 1)..Len(s) : ~IsCaseIgnorable(s[j])}
  IN  /\ before # {}
      /\ IsCased(s[CHOOSE j \in before : \A h \in before : h <= j])
      /\ \/ after = {}
         \/ ~IsCased(s[CHOOSE j \in after : \A h \in after : j <= h])

RECURSIVE LowerFrom(_, _)
LowerFrom(s, i) ==
  IF i > Len(s) THEN <<>>
  ELSE (IF s[i] = 931
        THEN <<IF FinalSigma(s, i) THEN 962 ELSE 963>>
        ELSE ToLowerFull(s[i]))
       \o LowerFrom(s, i + 1)

\* str.lower()
Lower(s) == LowerFrom(s, 1)

\* the code points str.strip() removes: those str.isspace() holds of
SpaceRanges ==
  << <<9, 13>>, <<28, 32>>, <<133, 133>>, <<160, 160>>, <<5760, 5760>>,
     <<8192, 8202>>, <<8232, 8233>>, <<8239, 8239>>, <<8287, 8287>>, <<12288, 12288>> >>

IsSpace(c) == InRanges(c, SpaceRanges)

RECURSIVE LStrip(_)
LStrip(s) ==
  IF s # <<>> /\ IsSpace(Head(s)) THEN LStrip(Tail(s)) ELSE s

RECURSIVE RStrip(_)
RStrip(s) ==
  IF s # <<>> /\ IsSpace(s[Len(s)]) THEN RStrip(SubSeq(s, 1, Len(s) - 1)) ELSE s

\* str.strip()
Strip(s) == RStrip(LStrip(s))

\* str.split(','): the fragments between commas; always at least one
RECURSIVE Split(_)
Split(s) ==
  IF \E i \in 1..Len(s) : s[i] = 44
  THEN LET i == CHOOSE j \in 1..Len(s) :
                  s[j] = 44 /\ \A h \in 1..(j - 1) : s[h] # 44
       IN  <<SubSeq(s, 1, i - 1)>> \o Split(SubSeq(s, i + 1, Len(s)))
  ELSE <<s>>

\* ------------------------------------------------------------------------
\* JSON values and json.dumps(value, indent=4)
\* ------------------------------------------------------------------------

JNull == [t |-> "null", n |-> 0, s |-> <<>>, kids |-> <<>>]
JBool(b) == [t |-> "bool", n |-> IF b THEN 1 ELSE 0, s |-> <<>>, kids |-> <<>>]
JNum(x) == [t |-> "num", n |-> x, s |-> <<>>, kids |-> <<>>]
JStr(x) == [t |-> "str", n |-> 0, s |-> x, kids |-> <<>>]
JArr(items) ==
  [t |-> "arr", n |-> 0, s |-> <<>>,
   kids |-> [i \in 1..Len(items) |-> [k |-> <<>>, v |-> items[i]]]]
JObj(members) == [t |-> "obj", n |-> 0, s |-> <<>>, kids |-> members]

Indent == 4

RECURSIVE NatText(_)
NatText(x) ==
  IF x < 10 THEN <<48 + x>>
  ELSE NatText(x \div 10) \o <<48 + (x % 10)>>

\* the text of an int
IntText(x) == IF x < 0 THEN <<45>> \o NatText(0 - x) ELSE NatText(x)

HexDigit(d) == IF d < 10 THEN 48 + d ELSE 87 + d

\* \uXXXX, four lower-case hexadecimal digits
UEscape(c) ==
  <<92, 117, HexDigit(c \div 4096), HexDigit((c \div 256) % 16),
    HexDigit((c \div 16) % 16), HexDigit(c % 16)>>

\* json.dumps escapes with ensure_ascii left on: the quote, the backslash,
\* and every code point outside space..~ (as a surrogate pair above U+FFFF)
EscapeChar(c) ==
  CASE c = 34 -> <<92, 34>>
    [] c = 92 -> <<92, 92>>
    [] c = 10 -> <<92, 110>>
    [] c = 13 -> <<92, 114>>
    [] c = 9 -> <<92, 116>>
    [] c = 12 -> <<92, 102>>
    [] c = 8 -> <<92, 98>>
    [] OTHER ->
         IF 32 <= c /\ c <= 126 THEN <<c>>
         ELSE IF c < 65536 THEN UEscape(c)
         ELSE UEscape(55296 + ((c - 65536) \div 1024))
              \o UEscape(56320 + ((c - 65536) % 1024))

RECURSIVE Escape(_)
Escape(s) == IF s = <<>> THEN <<>> ELSE EscapeChar(Head(s)) \o Escape(Tail(s))

Quote(s) == <<34>> \o Escape(s) \o <<34>>

RECURSIVE Spaces(_)
Spaces(k) == IF k = 0 THEN <<>> ELSE <<32>> \o Spaces(k - 1)

NewlineIndent(level) == <<10>> \o Spaces(Indent * level)

RECURSIVE DumpsAt(_, _)
RECURSIVE DumpsKids(_, _, _, _)

\* the members of a container from member i on, each on a line of its own
DumpsKids(kids, i, isObj, level) ==
  IF i > Len(kids) THEN <<>>
  ELSE NewlineIndent(level)
       \o (IF isObj THEN Quote(kids[i].k) \o <<58, 32>> (* :  *) ELSE <<>>)
       \o DumpsAt(kids[i].v, level)
       \o (IF i < Len(kids) THEN <<44>> ELSE <<>>)
       \o DumpsKids(kids, i + 1, isObj, level)

DumpsAt(v, level) ==
  CASE v.t = "null" -> <<110, 117, 108, 108>> (* null *)
    [] v.t = "bool" ->
         IF v.n = 1 THEN <<116, 114, 117, 101>> (* true *)
         ELSE <<102, 97, 108, 115, 101>> (* false *)
    [] v.t = "num" -> IntText(v.n)
    [] v.t = "str" -> Quote(v.s)
    [] v.t = "arr" ->
         IF v.kids = <<>> THEN <<91, 93>> (* [] *)
         ELSE <<91>> \o DumpsKids(v.kids, 1, FALSE, level + 1)
              \o NewlineIndent(level) \o <<93>>
    [] v.t = "obj" ->
         IF v.kids = <<>> THEN <<123, 125>> (* {} *)
         ELSE <<123>> \o DumpsKids(v.kids, 1, TRUE, level + 1)
              \o NewlineIndent(level) \o <<125>>

\* json.dumps(v, indent=4)
Dumps(v) == DumpsAt(v, 0)


\* ------------------------------------------------------------------------
\* Inputs: the operator's answer, config.ini, the fixture tree, the servers
\* ------------------------------------------------------------------------

Svil == <<115, 118, 105, 108>> (* svil *)
Test == <<116, 101, 115, 116>> (* test *)
Prod == <<112, 114, 111, 100>> (* prod *)

\* the names the operator may type at the prompt
EnvInputs ==
  { Svil,
    <<84, 69, 83, 84>> (* TEST *),
    <<80, 114, 111, 100>> (* Prod *),
    <<100, 101, 118>> (* dev *),
    <<115, 118, 105, 108, 32>> (* svil and a space *),
    <<83, 86, 304, 76>> (* SV, I with dot above, L *),
    <<201>> (* E with acute *),
    <<>> }

\* line 35: the fixed enumerated environments
EnvAcceptedAny(e) == TRUE
EnvAccepted(e) == e \in {Svil, Test, Prod}

\* config.ini has a urls-svil and a urls-test section and no urls-prod section
UrlSections == {Svil, Test}

ServiceNames == {"orders", "stock", "users", "audit", "ghost"}

\* the base URL config.ini gives each microservice in the urls section
BaseUrl(name) ==
  CASE name = "orders" -> <<104, 116, 116, 112, 58, 47, 47, 111, 47>> (* http://o/ *)
    [] name = "stock"  -> <<104, 116, 116, 112, 58, 47, 47, 115>> (* http://s *)
    [] name = "users"  -> <<104, 116, 116, 112, 58, 47, 47, 117>> (* http://u *)
    [] name = "audit"  -> <<104, 116, 116, 112, 58, 47, 47, 97, 47>> (* http://a/ *)
    [] OTHER           -> <<104, 116, 116, 112, 58, 47, 47, 103, 47>> (* http://g/ *)

\* the microservice sections of config.ini, with the value config.get returns
\* for the endpoints key: orders declares two endpoints, stock one, users
\* has the key with an empty value, audit has a section without the key,
\* ghost has no section
Section(name) ==
  CASE name = "orders" ->
         [exists |-> TRUE, hasKey |-> TRUE,
          value |-> <<47, 97, 44, 32, 47, 98>> (* /a, /b *)]
    [] name = "stock" ->
         [exists |-> TRUE, hasKey |-> TRUE, value |-> <<47, 98>> (* /b *)]
    [] name = "users" -> [exists |-> TRUE, hasKey |-> TRUE, value |-> <<>>]
    [] name = "audit" -> [exists |-> TRUE, hasKey |-> FALSE, value |-> <<>>]
    [] OTHER -> [exists |-> FALSE, hasKey |-> FALSE, value |-> <<>>]

\* the exception config.get(name, 'endpoints') raises, or "none"
ConfigGetError(name) ==
  IF ~Section(name).exists THEN "NoSectionError"
  ELSE IF ~Section(name).hasKey THEN "NoOptionError"
  ELSE "none"

\* line 46: except Exception catches whatever the lookup raises
RecoveredOptionOnly(exc) == exc = "NoOptionError"
Recovered(exc) == exc \in {"NoSectionError", "NoOptionError"}

\* line 45: [v.strip() for v in value.split(',')]
ParseEndpoints(value) ==
  LET parts == Split(value) IN [i \in 1..Len(parts) |-> Strip(parts[i])]

RECURSIVE SeqsOver(_, _)
\* the sequences of length n of distinct elements of S
SeqsOver(S, n) ==
  IF n = 0 THEN {<<>>}
  ELSE UNION { { Append(q, x) : x \in S \ {q[i] : i \in 1..Len(q)} }
               : q \in SeqsOver(S, n - 1) }

\* the urls sections a run may iterate: option names are unique in a section
Catalogs ==
  UNION { { [i \in 1..Len(q) |-> <<q[i], BaseUrl(q[i])>>] : q \in SeqsOver(ServiceNames, n) }
          : n \in 0..MaxServices }

\* lines 50-51
request_file_path(endpoint) ==
  <<114, 101, 113, 117, 101, 115, 116, 115>> (* requests *) \o endpoint
    \o <<46, 106, 115, 111, 110>> (* .json *)
response_file_path(endpoint) ==
  <<114, 101, 115, 112, 111, 110, 115, 101, 115>> (* responses *) \o endpoint
    \o <<46, 106, 115, 111, 110>> (* .json *)

KnownEndpoints ==
  UNION { { ParseEndpoints(Section(n).value)[i]
            : i \in 1..Len(ParseEndpoints(Section(n).value)) }
          : n \in {m \in ServiceNames : ConfigGetError(m) = "none"} }

FixturePaths ==
  {request_file_path(e) : e \in KnownEndpoints}
    \cup {response_file_path(e) : e \in KnownEndpoints}

StatusOk ==
  JObj(<<[k |-> <<115, 116, 97, 116, 117, 115>> (* status *), v |-> JStr(<<111, 107>> (* ok *))]>>)
StatusFail ==
  JObj(<<[k |-> <<115, 116, 97, 116, 117, 115>> (* status *), v |-> JStr(<<102, 97, 105, 108>> (* fail *))]>>)
OrderList == JArr(<<JNum(1), JStr(<<99, 97, 102, 233>> (* caf, e with acute *))>>)
RequestDoc == JObj(<<[k |-> <<105, 100>> (* id *), v |-> JNum(1)]>>)

\* a fixture file: not yet looked at, absent, not JSON, or a JSON document
Unknown == [kind |-> "unknown", doc |-> JNull]
Missing == [kind |-> "missing", doc |-> JNull]
Invalid == [kind |-> "invalid", doc |-> JNull]
JsonFile(d) == [kind |-> "json", doc |-> d]

RequestStates == {Missing, Invalid, JsonFile(RequestDoc)}
ResponseStates == {Missing, Invalid, JsonFile(StatusOk), JsonFile(OrderList)}

\* what a server does with one POST
ServerReplies ==
  { [kind |-> "ConnectionError", doc |-> JNull],
    [kind |-> "not_json", doc |-> JNull],
    [kind |-> "json", doc |-> StatusOk],
    [kind |-> "json", doc |-> StatusFail],
    [kind |-> "json", doc |-> OrderList] }

\* ------------------------------------------------------------------------
\* The scratch files (tempfile.TemporaryFile(mode='r+')): text and position
\* ------------------------------------------------------------------------

NewFile == [content |-> <<>>, pos |-> 0]

\* file.truncate(): cut the file at the current position
Truncate(f) ==
  [f EXCEPT !.content = SubSeq(f.content, 1, Min(f.pos, Len(f.content)))]

\* file.write(s): write at the current position and advance it
Write(f, s) ==
  [content |-> SubSeq(f.content, 1, f.pos) \o s
                 \o SubSeq(f.content, f.pos + Len(s) + 1, Len(f.content)),
   pos |-> f.pos + Len(s)]

\* line 66: iterating a file reads on from its current position
IterStartRewound(f) == 0
IterStart(f) == f.pos

\* the next line at position p, its newline included; empty at end of file
NextLine(content, p) ==
  IF p >= Len(content) THEN <<>>
  ELSE IF \E i \in (p + 1)..Len(content) : content[i] = 10
  THEN LET i == CHOOSE j \in (p + 1)..Len(content) :
                  content[j] = 10 /\ \A h \in (p + 1)..(j - 1) : content[h] # 10
       IN  SubSeq(content, p + 1, i)
  ELSE SubSeq(content, p + 1, Len(content))

RECURSIVE ZipFrom(_, _, _, _)
\* zip(a, b): takes a line of a, then a line of b, and stops at the first
\* file that has none left; yields the pairs and the positions reached
ZipFrom(a, pa, b, pb) ==
  LET l1 == NextLine(a, pa) IN
  IF l1 = <<>> THEN [pairs |-> <<>>, pa |-> pa, pb |-> pb]
  ELSE LET l2 == NextLine(b, pb) IN
       IF l2 = <<>> THEN [pairs |-> <<>>, pa |-> pa + Len(l1), pb |-> pb]
       ELSE LET rest == ZipFrom(a, pa + Len(l1), b, pb + Len(l2))
            IN  [rest EXCEPT !.pairs = <<<<l1, l2>>>> \o rest.pairs]

ZipLines(fa, fb) == ZipFrom(fa.content, IterStart(fa), fb.content, IterStart(fb))

RECURSIVE Differences(_)
\* lines 67-68: the actual-side line of every pair that differs
Differences(pairs) ==
  IF pairs = <<>> THEN <<>>
  ELSE (IF Head(pairs)[1] # Head(pairs)[2] THEN <<Head(pairs)[1]>> ELSE <<>>)
       \o Differences(Tail(pairs))

DifferencePrefix ==
  <<70, 111, 117, 110, 100, 32, 100, 105, 102, 102, 101, 114, 101, 110, 99,
    101, 58, 32>> (* Found difference:  *)

\* what print() writes for one difference: the text and a newline
DifferenceLine(line) ==
  [kind |-> "difference", text |-> DifferencePrefix \o line \o <<10>>]

\* lines 30-32: what print() writes, "Welcome to the release sanity checker.
\* ... (head to config.ini file to know more)", a newline and print's own
BannerText ==
  <<87, 101, 108, 99, 111, 109, 101, 32, 116, 111, 32, 116, 104, 101, 32,
    114, 101, 108, 101, 97, 115, 101, 32, 115, 97, 110, 105, 116, 121, 32,
    99, 104, 101, 99, 107, 101, 114, 46, 32, 84, 104, 105, 115, 32, 116,
    111, 111, 108, 32, 97, 108, 108, 111, 119, 115, 32, 121, 111, 117, 32,
    116, 111, 32, 99, 104, 101, 99, 107, 32, 102, 111, 114, 32, 100, 105,
    102, 102, 101, 114, 101, 110, 99, 101, 115, 32, 105, 110, 32, 101, 110,
    100, 112, 111, 105, 110, 116, 32, 114, 101, 115, 112, 111, 110, 115,
    101, 115, 32, 98, 101, 102, 111, 114, 101, 32, 97, 110, 100, 32, 97,
    102, 116, 101, 114, 32, 97, 32, 114, 101, 108, 101, 97, 115, 101, 46,
    32, 78, 111, 119, 32, 105, 116, 32, 119, 105, 108, 108, 32, 115, 116,
    97, 114, 116, 32, 116, 111, 32, 99, 111, 108, 108, 101, 99, 116, 32,
    114, 101, 115, 112, 111, 110, 115, 101, 115, 32, 116, 111, 32, 116,
    104, 101, 32, 99, 111, 110, 102, 105, 103, 117, 114, 101, 100, 32, 101,
    110, 100, 112, 111, 105, 110, 116, 115, 32, 40, 104, 101, 97, 100, 32,
    116, 111, 32, 99, 111, 110, 102, 105, 103, 46, 105, 110, 105, 32, 102,
    105, 108, 101, 32, 116, 111, 32, 107, 110, 111, 119, 32, 109, 111, 114,
    101, 41, 10, 10>>

Banner == [kind |-> "banner", text |-> BannerText]

\* line 33: the prompt of input(),
\* "Insert environment to run the query on: (svil, test, prod):" and a newline
PromptText ==
  <<73, 110, 115, 101, 114, 116, 32, 101, 110, 118, 105, 114, 111, 110,
    109, 101, 110, 116, 32, 116, 111, 32, 114, 117, 110, 32, 116, 104, 101,
    32, 113, 117, 101, 114, 121, 32, 111, 110, 58, 32, 40, 115, 118, 105,
    108, 44, 32, 116, 101, 115, 116, 44, 32, 112, 114, 111, 100, 41, 58,
    10>>

Prompt == [kind |-> "prompt", text |-> PromptText]

\* line 23: the message of the record logging.info writes to stderr (the
\* process, thread, level and time fields of the format are left out)
LogLine(url) ==
  [kind |-> "log",
   text |-> <<83, 101, 110, 100, 105, 110, 103, 32, 114, 101, 113, 117, 101,
              115, 116, 32, 116, 111, 32>> (* Sending request to  *) \o url]

\* the traceback the interpreter writes to stderr for an uncaught exception
\* (its text, which names files and lines, is left out)
Traceback == [kind |-> "traceback", text |-> <<>>]

\* ------------------------------------------------------------------------
\* State
\* ------------------------------------------------------------------------

VARIABLES
  pc,                    \* position of main()
  typed,                 \* what the operator typed
  env,                   \* line 33
  stdout,                \* everything written to standard output
  stderr,                \* everything written to standard error
  events,                \* file opens, parses and POSTs, in order
  catalog,               \* the entries of the urls section in config.ini
  path_items,            \* line 41
  mi,                    \* index of the microservice entry being processed
  endpoints,             \* line 45
  ei,                    \* index of the endpoint being processed
  files,                 \* the fixture tree, as far as the run has seen it
  payload,               \* line 55
  response_json,         \* line 56
  expected_response,     \* the document parsed at line 61
  request_compare_tmp,   \* line 38
  response_compare_tmp,  \* line 39
  scratch_open,          \* inside the with block of lines 38-39
  failure,               \* the exception that ended the run, or "none"
  checks                 \* the comparisons finished so far

vars ==
  <<pc, typed, env, stdout, stderr, events, catalog, path_items, mi, endpoints, ei,
    files, payload, response_json, expected_response, request_compare_tmp,
    response_compare_tmp, scratch_open, failure, checks>>

Event(op, arg) == [op |-> op, mi |-> mi, ei |-> ei, arg |-> arg]

Init ==
  /\ pc = "start"
  /\ typed = <<>>
  /\ env = <<>>
  /\ stdout = <<>>
  /\ stderr = <<>>
  /\ events = <<>>
  /\ catalog \in Catalogs
  /\ path_items = <<>>
  /\ mi = 0
  /\ endpoints = <<>>
  /\ ei = 0
  /\ files = [p \in FixturePaths |-> Unknown]
  /\ payload = [url |-> <<>>, payload |-> JNull]
  /\ response_json = JNull
  /\ expected_response = JNull
  /\ request_compare_tmp = NewFile
  /\ response_compare_tmp = NewFile
  /\ scratch_open = FALSE
  /\ failure = "none"
  /\ checks = <<>>

\* an uncaught exception leaves main(): the with blocks close the files
AbortEndpointOnly(kind) ==
  /\ pc' = "open_fixtures"
  /\ failure' = kind
  /\ stderr' = Append(stderr, Traceback)
  /\ ei' = ei + 1
  /\ UNCHANGED <<mi, scratch_open>>
Abort(kind) ==
  /\ pc' = "aborted"
  /\ failure' = kind
  /\ stderr' = Append(stderr, Traceback)
  /\ scratch_open' = FALSE
  /\ UNCHANGED <<mi, ei>>

\* lines 30-33: print the welcome text; input() writes its prompt, to stdout,
\* or to stderr when the run is at a terminal without readline
Welcome ==
  /\ pc = "start"
  /\ \/ /\ stdout' = <<Banner, Prompt>>
        /\ stderr' = stderr
     \/ /\ stdout' = <<Banner>>
        /\ stderr' = Append(stderr, Prompt)
  /\ pc' = "input"
  /\ UNCHANGED <<typed, env, events, catalog, path_items, mi, endpoints, ei,
                 files, payload, response_json, expected_response,
                 request_compare_tmp, response_compare_tmp, scratch_open,
                 failure, checks>>

\* line 33: input() returns the line typed, which is lower-cased, or raises
\* EOFError when stdin is at end of file
ReadEnvironment ==
  /\ pc = "input"
  /\ \/ \E name \in EnvInputs :
          /\ typed' = name
          /\ env' = Lower(name)
          /\ pc' = "check_env"
          /\ UNCHANGED <<stderr, failure, scratch_open, mi, ei>>
     \/ /\ Abort("EOFError")
        /\ UNCHANGED <<typed, env>>
  /\ UNCHANGED <<stdout, events, catalog, path_items, endpoints, files, payload,
                 response_json, expected_response, request_compare_tmp,
                 response_compare_tmp, checks>>

\* lines 35-36: return on a name that is not an environment
RejectEnvironment ==
  /\ pc = "check_env"
  /\ ~EnvAccepted(env)
  /\ pc' = "done"
  /\ UNCHANGED <<stderr, typed, env, stdout, events, catalog, path_items, mi, endpoints,
                 ei, files, payload, response_json, expected_response,
                 request_compare_tmp, response_compare_tmp, scratch_open,
                 failure, checks>>

\* lines 38-41: open the two scratch files, read the urls section
OpenScratch ==
  /\ pc = "check_env"
  /\ EnvAccepted(env)
  /\ request_compare_tmp' = NewFile
  /\ response_compare_tmp' = NewFile
  /\ IF env \in UrlSections
     THEN /\ path_items' = catalog
          /\ mi' = 1
          /\ pc' = "next_service"
          /\ scratch_open' = TRUE
          /\ UNCHANGED <<failure, ei, stderr>>
     ELSE /\ Abort("NoSectionError:urls")
          /\ UNCHANGED path_items
  /\ events' = events \o <<Event("tmpfile", <<>>), Event("tmpfile", <<>>)>>
  /\ UNCHANGED <<typed, env, stdout, catalog, endpoints, files, payload,
                 response_json, expected_response, checks>>

\* lines 43-47, lookup fails: skip the entry
SkipService ==
  /\ pc = "next_service"
  /\ mi <= Len(path_items)
  /\ ConfigGetError(path_items[mi][1]) # "none"
  /\ IF Recovered(ConfigGetError(path_items[mi][1]))
     THEN /\ mi' = mi + 1
          /\ UNCHANGED <<pc, failure, scratch_open, ei, stderr>>
     ELSE Abort(ConfigGetError(path_items[mi][1]))
  /\ UNCHANGED <<typed, env, stdout, events, catalog, path_items, endpoints,
                 files, payload, response_json, expected_response,
                 request_compare_tmp, response_compare_tmp, checks>>

\* lines 43-45, lookup succeeds: the endpoint list of the entry
ResolveService ==
  /\ pc = "next_service"
  /\ mi <= Len(path_items)
  /\ ConfigGetError(path_items[mi][1]) = "none"
  /\ endpoints' = ParseEndpoints(Section(path_items[mi][1]).value)
  /\ ei' = 1
  /\ pc' = "open_fixtures"
  /\ UNCHANGED <<stderr, typed, env, stdout, events, catalog, path_items, mi, files,
                 payload, response_json, expected_response, request_compare_tmp,
                 response_compare_tmp, scratch_open, failure, checks>>

\* line 43, no entry left: main() returns, the scratch files are closed
Finish ==
  /\ pc = "next_service"
  /\ mi > Len(path_items)
  /\ pc' = "done"
  /\ scratch_open' = FALSE
  /\ UNCHANGED <<stderr, typed, env, stdout, events, catalog, path_items, mi, endpoints,
                 ei, files, payload, response_json, expected_response,
                 request_compare_tmp, response_compare_tmp, failure, checks>>

\* the state a fixture file is found in: fixed once the run has seen it
Reveal(path, states) ==
  IF files[path].kind = "unknown" THEN states ELSE {files[path]}

\* lines 50-53: open the request fixture, then the expected-response fixture
OpenFixtures ==
  /\ pc = "open_fixtures"
  /\ ei <= Len(endpoints)
  /\ LET rp == request_file_path(endpoints[ei])
         sp == response_file_path(endpoints[ei])
     IN  \E rq \in Reveal(rp, RequestStates) :
           IF rq.kind = "missing"
           THEN /\ files' = [files EXCEPT ![rp] = rq]
                /\ Abort("FileNotFoundError:request")
                /\ UNCHANGED events
           ELSE \E rs \in Reveal(sp, ResponseStates) :
                  /\ files' = [files EXCEPT ![rp] = rq, ![sp] = rs]
                  /\ IF rs.kind = "missing"
                     THEN /\ events' = Append(events, Event("open", rp))
                          /\ Abort("FileNotFoundError:response")
                     ELSE /\ events' = events \o <<Event("open", rp), Event("open", sp)>>
                          /\ pc' = "load_request"
                          /\ UNCHANGED <<failure, scratch_open, mi, ei, stderr>>
  /\ UNCHANGED <<typed, env, stdout, catalog, path_items, endpoints, payload,
                 response_json, expected_response, request_compare_tmp,
                 response_compare_tmp, checks>>

\* line 49, no endpoint left: on to the next entry of the urls section
EndOfEndpoints ==
  /\ pc = "open_fixtures"
  /\ ei > Len(endpoints)
  /\ mi' = mi + 1
  /\ pc' = "next_service"
  /\ UNCHANGED <<stderr, typed, env, stdout, events, catalog, path_items, endpoints, ei,
                 files, payload, response_json, expected_response,
                 request_compare_tmp, response_compare_tmp, scratch_open,
                 failure, checks>>

\* line 55: parse the request fixture, build the payload
LoadRequestUnparsed ==
  /\ pc = "load_request"
  /\ payload' = [url |-> path_items[mi][2] \o endpoints[ei],
                 payload |-> files[request_file_path(endpoints[ei])].doc]
  /\ pc' = "call"
  /\ UNCHANGED <<stderr, typed, env, stdout, events, catalog, path_items, mi, endpoints,
                 ei, files, response_json, expected_response,
                 request_compare_tmp, response_compare_tmp, scratch_open,
                 failure, checks>>
LoadRequest ==
  /\ pc = "load_request"
  /\ LET rp == request_file_path(endpoints[ei]) IN
     IF files[rp].kind = "invalid"
     THEN /\ Abort("JSONDecodeError:request")
          /\ UNCHANGED <<events, payload>>
     ELSE /\ payload' = [url |-> path_items[mi][2] \o endpoints[ei],
                         payload |-> files[rp].doc]
          /\ events' = Append(events, Event("load", rp))
          /\ pc' = "call"
          /\ UNCHANGED <<failure, scratch_open, mi, ei, stderr>>
  /\ UNCHANGED <<typed, env, stdout, catalog, path_items, endpoints, files,
                 response_json, expected_response, request_compare_tmp,
                 response_compare_tmp, checks>>

\* lines 23-24: log the URL and send the POST
call_microservice ==
  /\ pc = "call"
  /\ stderr' = Append(stderr, LogLine(payload.url))
  /\ events' = Append(events, Event("post", payload.url))
  /\ pc' = "in_flight"
  /\ UNCHANGED <<typed, env, stdout, catalog, path_items, mi, endpoints, ei,
                 files, payload, response_json, expected_response,
                 request_compare_tmp, response_compare_tmp, scratch_open,
                 failure, checks>>

\* lines 24-26: the POST returns or raises, the body is parsed as JSON
ReceiveResponse ==
  /\ pc = "in_flight"
  /\ \E r \in ServerReplies :
       IF r.kind = "json"
       THEN /\ response_json' = r.doc
            /\ pc' = "write_scratch"
            /\ UNCHANGED <<failure, scratch_open, mi, ei, stderr>>
       ELSE /\ Abort(IF r.kind = "not_json" THEN "JSONDecodeError:response"
                     ELSE r.kind)
            /\ UNCHANGED response_json
  /\ UNCHANGED <<typed, env, stdout, events, catalog, path_items, endpoints,
                 files, payload, expected_response, request_compare_tmp,
                 response_compare_tmp, checks>>

\* lines 58-64: truncate both scratch files, write the response, parse the
\* expected-response fixture and write it
WriteScratch ==
  /\ pc = "write_scratch"
  /\ request_compare_tmp' = Write(Truncate(request_compare_tmp), Dumps(response_json))
  /\ LET sp == response_file_path(endpoints[ei]) IN
     IF files[sp].kind = "invalid"
     THEN /\ response_compare_tmp' = Truncate(response_compare_tmp)
          /\ Abort("JSONDecodeError:expected")
          /\ UNCHANGED <<events, expected_response>>
     ELSE /\ expected_response' = files[sp].doc
          /\ response_compare_tmp' =
               Write(Truncate(response_compare_tmp), Dumps(files[sp].doc))
          /\ events' = Append(events, Event("load", sp))
          /\ pc' = "compare"
          /\ UNCHANGED <<failure, scratch_open, mi, ei, stderr>>
  /\ UNCHANGED <<typed, env, stdout, catalog, path_items, endpoints, files,
                 payload, response_json, checks>>

\* lines 66-68: pair the lines of the two scratch files, print the actual-side
\* line of every pair that differs; the fixture files are closed (line 52)
Compare ==
  /\ pc = "compare"
  /\ LET z == ZipLines(request_compare_tmp, response_compare_tmp)
         reports == Differences(z.pairs)
     IN  /\ stdout' = stdout \o [i \in 1..Len(reports) |-> DifferenceLine(reports[i])]
         /\ request_compare_tmp' = [request_compare_tmp EXCEPT !.pos = z.pa]
         /\ response_compare_tmp' = [response_compare_tmp EXCEPT !.pos = z.pb]
         /\ checks' = Append(checks,
                        [mi |-> mi, ei |-> ei, url |-> payload.url,
                         actual |-> response_json, expected |-> expected_response,
                         reports |-> reports])
  /\ events' = Append(events, Event("compared", payload.url))
  /\ ei' = ei + 1
  /\ pc' = "open_fixtures"
  /\ UNCHANGED <<stderr, typed, env, catalog, path_items, mi, endpoints, files, payload,
                 response_json, expected_response, scratch_open, failure>>

Next ==
  \/ Welcome
  \/ ReadEnvironment
  \/ RejectEnvironment
  \/ OpenScratch
  \/ SkipService
  \/ ResolveService
  \/ Finish
  \/ OpenFixtures
  \/ EndOfEndpoints
  \/ LoadRequest
  \/ call_microservice
  \/ ReceiveResponse
  \/ WriteScratch
  \/ Compare

Spec == Init /\ [][Next]_vars

\* ------------------------------------------------------------------------
\* Vocabulary of the properties
\* ------------------------------------------------------------------------

RECURSIVE LinesFrom(_, _)
\* the lines of a text from position p on, each with its newline
LinesFrom(text, p) ==
  IF NextLine(text, p) = <<>> THEN <<>>
  ELSE <<NextLine(text, p)>> \o LinesFrom(text, p + Len(NextLine(text, p)))

\* the lines of the 4-space-indented serialized text of a JSON value
SerializedLines(v) == LinesFrom(Dumps(v), 0)

\* the events of a kind, in order
EventsOf(ops) == SelectSeq(events, LAMBDA e : e.op \in ops)

\* an event of kind op on arg for endpoint (m, n) among the first j events
Before(j, op, m, n, arg) ==
  \E h \in 1..(j - 1) :
    events[h].op = op /\ events[h].mi = m /\ events[h].ei = n /\ events[h].arg = arg

\* a POST was sent for the endpoint being processed
PostSentForCurrent ==
  \E j \in 1..Len(events) :
    events[j].op = "post" /\ events[j].mi = mi /\ events[j].ei = ei

\* the entry's endpoints key, or its whole section, is absent
EndpointsKeyAbsent(name) == ~Section(name).exists \/ ~Section(name).hasKey

\* the entry's endpoints key is there and its value is empty or blank
DeclaresNothing(name) ==
  Section(name).exists /\ Section(name).hasKey /\ Strip(Section(name).value) = <<>>

\* the environment typed is, lower-cased, one of svil, test, prod
TypedValidEnvironment == Lower(typed) \in {Svil, Test, Prod}

\* input() has returned a name (it did not raise EOFError)
NameEntered == pc \notin {"start", "input"} /\ failure # "EOFError"

\* what a run leaves behind: printed lines, file and network operations
Effects == <<stdout, stderr, events, files, checks>>

\* ------------------------------------------------------------------------
\* C1
\* ------------------------------------------------------------------------

\* C1: for every endpoint check and every line position i present in both
\* serialized texts at which the actual and the expected line differ, a
\* difference report carrying the actual-side line i is printed for that
\* endpoint.
C1_DifferenceReported ==
  \A c \in 1..Len(checks) :
    LET a == SerializedLines(checks[c].actual)
        b == SerializedLines(checks[c].expected)
    IN  \A i \in 1..Min(Len(a), Len(b)) :
          a[i] # b[i] =>
            /\ \E r \in 1..Len(checks[c].reports) : checks[c].reports[r] = a[i]
            /\ \E o \in 1..Len(stdout) : stdout[o] = DifferenceLine(a[i])

\* ------------------------------------------------------------------------
\* C2
\* ------------------------------------------------------------------------

\* C2: an entry whose endpoints key or whole section is absent loads no
\* fixture, sends no request, performs no comparison and raises no error, and
\* the run goes on to the next entry of the catalog.
C2_AbsentKeySkipped ==
  /\ [](\A j \in 1..Len(events) :
          events[j].op \in {"open", "load", "post", "compared"}
            => ~EndpointsKeyAbsent(path_items[events[j].mi][1]))
  /\ [][(pc = "next_service" /\ mi <= Len(path_items)
           /\ EndpointsKeyAbsent(path_items[mi][1]))
          => (pc' = "next_service" /\ mi' = mi + 1 /\ failure' = "none"
                /\ UNCHANGED Effects)]_vars

\* an entry without a section was passed over and a later entry was checked
C2_Witness ==
  /\ Len(path_items) >= 2
  /\ ~Section(path_items[1][1]).exists
  /\ \E j \in 1..Len(events) : events[j].op = "compared" /\ events[j].mi = 2

\* ------------------------------------------------------------------------
\* C3
\* ------------------------------------------------------------------------

\* C3 as stated: for a typed name that is, lower-cased, none of svil, test,
\* prod, the run ends normally with no network call, no fixture or scratch
\* file opened and no output produced.
C3_NoOutputAtAll ==
  (NameEntered /\ ~TypedValidEnvironment) =>
    /\ pc \in {"check_env", "done"}
    /\ failure = "none"
    /\ events = <<>>
    /\ ~scratch_open
    /\ stdout = <<>>
    /\ stderr = <<>>

\* C3 as amended: for such a name the run ends normally with no network
\* call and no fixture or scratch file opened, and writes nothing but the
\* welcome text (to stdout) and the prompt (to stdout or to stderr), both
\* written before the name is read.
C3_InvalidEnvironmentNoEffect ==
  (NameEntered /\ ~TypedValidEnvironment) =>
    /\ pc \in {"check_env", "done"}
    /\ failure = "none"
    /\ events = <<>>
    /\ ~scratch_open
    /\ \/ stdout = <<Banner, Prompt>> /\ stderr = <<>>
       \/ stdout = <<Banner>> /\ stderr = <<Prompt>>

\* a run on a name that is not an environment has ended
C3_Witness == pc = "done" /\ ~TypedValidEnvironment /\ typed # <<>>

\* ------------------------------------------------------------------------
\* C4
\* ------------------------------------------------------------------------

\* C4: an entry whose endpoints key is present with an empty or blank value
\* is skipped: no fixture file is opened and no request sent for it, and the
\* run goes on to the next entry instead of aborting.
C4_EmptyValueSkipped ==
  /\ \A j \in 1..Len(events) :
       events[j].op \in {"open", "post"}
         => ~DeclaresNothing(path_items[events[j].mi][1])
  /\ (failure # "none" /\ mi \in 1..Len(path_items))
       => ~DeclaresNothing(path_items[mi][1])

\* ------------------------------------------------------------------------
\* C5
\* ------------------------------------------------------------------------

\* C5: at every endpoint position of a run, a comparison of a live response
\* with an equal expected fixture prints no difference report.
C5_IdentitySilent ==
  /\ [](\A c \in 1..Len(checks) :
          checks[c].actual = checks[c].expected => checks[c].reports = <<>>)
  /\ [][(pc = "compare" /\ response_json = expected_response)
          => stdout' = stdout]_vars

\* the second comparison of a run had equal documents after a first one whose
\* documents differed
C5_Witness ==
  /\ Len(checks) >= 2
  /\ checks[1].actual # checks[1].expected
  /\ checks[2].actual = checks[2].expected

\* ------------------------------------------------------------------------
\* C6
\* ------------------------------------------------------------------------

\* C6: the number of reports of an endpoint check never exceeds the line
\* count of the shorter serialized text, and a line-count mismatch raises no
\* error: the comparison ends and the run moves on.
C6_ReportsBoundedByShorter ==
  [][pc = "compare"
       => /\ pc' = "open_fixtures"
          /\ failure' = "none"
          /\ Len(checks') = Len(checks) + 1
          /\ Len(checks'[Len(checks')].reports) = Len(stdout') - Len(stdout)
          /\ Len(stdout') - Len(stdout)
               <= Min(Len(SerializedLines(response_json)),
                      Len(SerializedLines(expected_response)))]_vars

\* the second comparison of a run was of a text against a longer one, after
\* a first comparison of a text against a shorter one
C6_Witness ==
  /\ Len(checks) >= 2
  /\ Len(SerializedLines(checks[1].actual)) > Len(SerializedLines(checks[1].expected))
  /\ Len(SerializedLines(checks[2].actual)) < Len(SerializedLines(checks[2].expected))

\* ------------------------------------------------------------------------
\* C7
\* ------------------------------------------------------------------------

\* C7: when the line-by-line comparison of an endpoint starts, each scratch
\* buffer holds exactly the serialized text of that endpoint's document and
\* nothing written for an earlier endpoint.
C7_ScratchHoldsOnlyCurrent ==
  pc = "compare" =>
    /\ request_compare_tmp.content = Dumps(response_json)
    /\ response_compare_tmp.content = Dumps(expected_response)

\* ------------------------------------------------------------------------
\* C8
\* ------------------------------------------------------------------------

FixtureFailures ==
  {"FileNotFoundError:request", "FileNotFoundError:response",
   "JSONDecodeError:request", "JSONDecodeError:expected"}

\* C8 as stated: a request is sent only after both fixtures have been opened
\* and parsed, so an endpoint whose request or expected-response fixture is
\* missing or invalid aborts the run with no request sent for it.
C8_BothParsedBeforeRequest ==
  /\ \A j \in 1..Len(events) :
       events[j].op = "post" =>
         LET e == path_items[events[j].mi][1]
             n == ParseEndpoints(Section(e).value)[events[j].ei]
         IN  /\ Before(j, "load", events[j].mi, events[j].ei, request_file_path(n))
             /\ Before(j, "load", events[j].mi, events[j].ei, response_file_path(n))
  /\ failure \in FixtureFailures => ~PostSentForCurrent

\* C8 as amended: a request is sent only after both fixture files have been
\* opened and the request fixture has been parsed; the expected-response
\* fixture is parsed only after the response has arrived.  A missing fixture
\* of either kind or an invalid request fixture aborts the run with no
\* request sent for the endpoint; an invalid expected-response fixture
\* aborts it after the endpoint's request has been sent.
C8_RequestParsedBeforeRequest ==
  /\ \A j \in 1..Len(events) :
       events[j].op = "post" =>
         LET e == path_items[events[j].mi][1]
             n == ParseEndpoints(Section(e).value)[events[j].ei]
         IN  /\ Before(j, "open", events[j].mi, events[j].ei, request_file_path(n))
             /\ Before(j, "open", events[j].mi, events[j].ei, response_file_path(n))
             /\ Before(j, "load", events[j].mi, events[j].ei, request_file_path(n))
             /\ ~Before(j, "load", events[j].mi, events[j].ei, response_file_path(n))
  /\ failure \in (FixtureFailures \ {"JSONDecodeError:expected"})
       => ~PostSentForCurrent
  /\ failure = "JSONDecodeError:expected" => PostSentForCurrent

\* a run was aborted at a later endpoint by an expected-response fixture
\* that is not JSON, after the request of that endpoint had been sent
C8_Witness ==
  /\ failure = "JSONDecodeError:expected"
  /\ Len(checks) >= 1
  /\ PostSentForCurrent

\* ------------------------------------------------------------------------
\* C9
\* ------------------------------------------------------------------------

\* C9: a failure other than the resolution of an entry's endpoint list ends
\* the run: after it no request is sent, no fixture loaded and no difference
\* printed for any later endpoint or entry.
C9_FailureIsFatal ==
  /\ [](failure # "none" => pc = "aborted")
  /\ [][failure # "none" => UNCHANGED Effects]_vars
  /\ [][(failure = "none" /\ failure' # "none")
          => failure' \notin {"NoSectionError", "NoOptionError"}]_vars

\* a transport failure ended a run that had endpoints and entries left
C9_Witness ==
  /\ failure = "ConnectionError"
  /\ pc = "aborted"
  /\ ei < Len(endpoints)
  /\ mi < Len(path_items)

\* ------------------------------------------------------------------------
\* C10
\* ------------------------------------------------------------------------

RECURSIVE NonEmpty(_)
NonEmpty(q) ==
  IF q = <<>> THEN <<>>
  ELSE (IF Head(q) # <<>> THEN <<Head(q)>> ELSE <<>>) \o NonEmpty(Tail(q))

\* the endpoints an entry declares: the non-empty fragments of its list
DeclaredEndpoints(name) ==
  IF EndpointsKeyAbsent(name) THEN <<>>
  ELSE NonEmpty(ParseEndpoints(Section(name).value))

RECURSIVE ExpectedUrls(_, _)
\* base URL followed by endpoint path, entry by entry from entry i on
ExpectedUrls(items, i) ==
  IF i > Len(items) THEN <<>>
  ELSE [n \in 1..Len(DeclaredEndpoints(items[i][1])) |->
          items[i][2] \o DeclaredEndpoints(items[i][1])[n]]
       \o ExpectedUrls(items, i + 1)

\* requests and comparisons alternate, a request first
Alternates(q) ==
  \A j \in 1..Len(q) : q[j].op = (IF j % 2 = 1 THEN "post" ELSE "compared")

\* C10: a run on a valid environment that ends without a fatal error has
\* sent exactly one POST per declared endpoint of each resolved entry, to
\* base URL followed by endpoint path, in catalog order and declared order,
\* one at a time, each comparison finished before the next request.
C10_RequestSequence ==
  (pc = "done" /\ failure = "none" /\ TypedValidEnvironment) =>
    /\ [j \in 1..Len(EventsOf({"post"})) |-> EventsOf({"post"})[j].arg]
         = ExpectedUrls(path_items, 1)
    /\ Alternates(EventsOf({"post", "compared"}))
    /\ Len(EventsOf({"post", "compared"})) = 2 * Len(EventsOf({"post"}))
====
